---- MODULE Spec2Model ----
(***************************************************************************)
(* PyRAGemini: document loading, splitting, embedding, FAISS index         *)
(* management and the pipeline driver (main.py, src/*.py).                 *)
(*                                                                         *)
(* Python strings are modelled as sequences of one-character strings over  *)
(* the alphabet {"a", " "}; a raised exception is a record whose kind is   *)
(* the exception class as the caller can catch it.                         *)
(***************************************************************************)
EXTENDS Integers, Sequences, FiniteSets, TLC

VARIABLES
    fs,         \* the documents directory: [exists, listing]
    call,       \* the last library-level call: its arguments, result and effects
    index_manager, \* the IndexManager in use: [dim, up, guard], or NoneValue
    disk,       \* the index directory: the artifact stored under each name
    saved,      \* per name, the index of the last save_index that ran to its
                \* end, and whether the latest save_index did
    held,       \* the index object the caller holds (db in main), or NoneValue
    env,        \* what main finds: [api_key, dim, up, guard]
    pc,         \* where main is
    stages,     \* the pipeline stages main has run: [stage, input, ok] each
    documents,  \* process_documents' documents
    chunks,     \* main's chunks: PyNone or PyList(split documents)
    out         \* what main has printed

(***************************************************************************)
(* Bounds                                                                  *)
(***************************************************************************)
MaxFiles == 3       \* files in the documents directory
MaxDocs == 2        \* documents handed to split_documents on its own
MaxChunkSize == 3   \* largest chunk_size tried on the splitter on its own
MaxK == 2           \* largest k of a similarity search
MaxBatch == 2       \* texts or documents in one call of the embeddings generator

(***************************************************************************)
(* Texts                                                                   *)
(***************************************************************************)
Blank == " "

\* str.strip() on both ends
RECURSIVE LStrip(_)
LStrip(t) == IF t # <<>> /\ Head(t) = Blank THEN LStrip(Tail(t)) ELSE t

RECURSIVE RStrip(_)
RStrip(t) ==
    IF t # <<>> /\ t[Len(t)] = Blank THEN RStrip(SubSeq(t, 1, Len(t) - 1)) ELSE t

Strip(t) == RStrip(LStrip(t))

(***************************************************************************)
(* document_loader.py                                                      *)
(***************************************************************************)
\* The files a directory may hold.  ext is the extension as written in the
\* file name, pages the texts its loader yields, fails whether loader.load()
\* raises, exists whether os.path.exists holds (false for a dangling link).
FileKinds ==
    { [name |-> "notes.txt",  ext |-> ".txt", exists |-> TRUE,  fails |-> FALSE,
       pages |-> << <<"a", "a", " ", "a">> >>],
      [name |-> "empty.txt",  ext |-> ".txt", exists |-> TRUE,  fails |-> FALSE,
       pages |-> << <<>> >>],
      [name |-> "paper.pdf",  ext |-> ".pdf", exists |-> TRUE,  fails |-> FALSE,
       pages |-> << <<"a", " ", "a", "a", "a">>, <<" ">> >>],
      [name |-> "broken.pdf", ext |-> ".pdf", exists |-> TRUE,  fails |-> TRUE,
       pages |-> <<>>],
      [name |-> "SHOUT.TXT",  ext |-> ".TXT", exists |-> TRUE,  fails |-> FALSE,
       pages |-> << <<"a">> >>],
      [name |-> "readme.md",  ext |-> ".md",  exists |-> TRUE,  fails |-> FALSE,
       pages |-> << <<"a", "a">> >>],
      [name |-> "gone.txt",   ext |-> ".txt", exists |-> FALSE, fails |-> FALSE,
       pages |-> <<>>] }

Listings == UNION { [1..n -> FileKinds] : n \in 0..MaxFiles }

Directories ==
    { [exists |-> TRUE, listing |-> l] : l \in Listings }
        \cup { [exists |-> FALSE, listing |-> <<>>] }

\* str.lower() on an extension
Lower(ext) == IF ext = ".TXT" THEN ".txt" ELSE ext

supported_extensions == {".pdf", ".docx", ".xlsx", ".txt"}

\* langchain's Document: page_content is always a str, metadata holds the source
Document(text, source) == [type |-> "Document", page_content |-> text, source |-> source]

DocsOf(f) == [i \in 1..Len(f.pages) |-> Document(f.pages[i], f.name)]

Ok(v) == [kind |-> "ok", value |-> v]
Raise(k) == [kind |-> k, value |-> <<>>]

\* load_document: the existence check, the case-sensitive endswith chain,
\* then loader.load()
load_document(f) ==
    IF ~f.exists THEN Raise("FileNotFoundError")
    ELSE IF f.ext \in {".pdf", ".docx", ".xlsx", ".txt"}
         THEN IF f.fails THEN Raise("LoaderError") ELSE Ok(DocsOf(f))
         ELSE Raise("ValueError")

\* The body of the for loop of load_documents_from_dir on one file: acc is
\* [documents, printed]
ScanFile(acc, f) ==
    IF Lower(f.ext) \in supported_extensions
    THEN LET r == load_document(f) IN
         IF r.kind = "ok"
         THEN [acc EXCEPT !.documents = @ \o r.value]
         ELSE [acc EXCEPT !.printed =
                   Append(@, [msg |-> "Error loading", file |-> f.name])]
    ELSE acc

RECURSIVE ScanFrom(_, _, _)
ScanFrom(listing, i, acc) ==
    IF i > Len(listing) THEN acc
    ELSE ScanFrom(listing, i + 1, ScanFile(acc, listing[i]))

\* load_documents_from_dir: [kind, value (the documents), printed]
load_documents_from_dir(d) ==
    IF ~d.exists
    THEN [kind |-> "FileNotFoundError", value |-> <<>>, printed |-> <<>>]
    ELSE LET acc == ScanFrom(d.listing, 1, [documents |-> <<>>, printed |-> <<>>])
         IN [kind |-> "ok", value |-> acc.documents, printed |-> acc.printed]

(***************************************************************************)
(* text_splitter.py: split_documents builds a RecursiveCharacterTextSplitter *)
(* (length_function=len, is_separator_regex=False, the default separators  *)
(* and keep_separator) and returns its split_documents(documents).  Over    *)
(* the alphabet used here only the separators " " and "" can occur.         *)
(***************************************************************************)
Contains(t, c) == \E i \in 1..Len(t) : t[i] = c

Chars(t) == [i \in 1..Len(t) |-> <<t[i]>>]

\* re.split with the separator kept at the head of the piece that follows it,
\* empty pieces dropped
RECURSIVE SplitKeepFrom(_, _, _, _)
SplitKeepFrom(t, i, cur, acc) ==
    IF i > Len(t) THEN (IF cur = <<>> THEN acc ELSE Append(acc, cur))
    ELSE IF t[i] = Blank
         THEN SplitKeepFrom(t, i + 1, <<Blank>>,
                            IF cur = <<>> THEN acc ELSE Append(acc, cur))
         ELSE SplitKeepFrom(t, i + 1, Append(cur, t[i]), acc)

SplitKeep(t) == SplitKeepFrom(t, 1, <<>>, <<>>)

RECURSIVE Concat(_)
Concat(pieces) == IF pieces = <<>> THEN <<>> ELSE Head(pieces) \o Concat(Tail(pieces))

RECURSIVE TotalLen(_)
TotalLen(pieces) == IF pieces = <<>> THEN 0 ELSE Len(Head(pieces)) + TotalLen(Tail(pieces))

\* _join_docs with the empty separator and strip_whitespace: None is <<>>
JoinDocs(pieces) == Strip(Concat(pieces))

\* the while loop of _merge_splits that drops pieces from the front
RECURSIVE DropFront(_, _, _, _)
DropFront(cur, len, size, overlap) ==
    IF TotalLen(cur) > overlap \/ (TotalLen(cur) + len > size /\ TotalLen(cur) > 0)
    THEN DropFront(Tail(cur), len, size, overlap)
    ELSE cur

RECURSIVE MergeFrom(_, _, _, _, _, _)
MergeFrom(splits, i, cur, docs, size, overlap) ==
    IF i > Len(splits)
    THEN (IF JoinDocs(cur) = <<>> THEN docs ELSE Append(docs, JoinDocs(cur)))
    ELSE LET d == splits[i] IN
         IF TotalLen(cur) + Len(d) > size /\ Len(cur) > 0
         THEN MergeFrom(splits, i + 1,
                        Append(DropFront(cur, Len(d), size, overlap), d),
                        IF JoinDocs(cur) = <<>> THEN docs ELSE Append(docs, JoinDocs(cur)),
                        size, overlap)
         ELSE MergeFrom(splits, i + 1, Append(cur, d), docs, size, overlap)

\* _merge_splits(splits, "")
MergeSplits(splits, size, overlap) == MergeFrom(splits, 1, <<>>, <<>>, size, overlap)

\* _split_text(text, separators): blankLevel says whether " " is still among
\* the separators
RECURSIVE SplitText(_, _, _, _)
RECURSIVE SplitLoop(_, _, _, _, _, _, _)
SplitLoop(splits, i, good, final, finer, size, overlap) ==
    IF i > Len(splits)
    THEN (IF good # <<>> THEN final \o MergeSplits(good, size, overlap) ELSE final)
    ELSE LET s == splits[i] IN
         IF Len(s) < size
         THEN SplitLoop(splits, i + 1, Append(good, s), final, finer, size, overlap)
         ELSE LET flushed == IF good # <<>>
                             THEN final \o MergeSplits(good, size, overlap)
                             ELSE final
              IN SplitLoop(splits, i + 1, <<>>,
                           IF finer
                           THEN flushed \o SplitText(s, FALSE, size, overlap)
                           ELSE Append(flushed, s),
                           finer, size, overlap)

SplitText(t, blankLevel, size, overlap) ==
    LET onBlank == blankLevel /\ Contains(t, Blank)
        splits  == IF onBlank THEN SplitKeep(t) ELSE Chars(t)
    IN SplitLoop(splits, 1, <<>>, <<>>, onBlank, size, overlap)

\* create_documents: the chunks of each document in turn, metadata copied
RECURSIVE ChunksOf(_, _, _)
ChunksOf(docs, size, overlap) ==
    IF docs = <<>> THEN <<>>
    ELSE LET d  == Head(docs)
             cs == SplitText(d.page_content, TRUE, size, overlap)
         IN [i \in 1..Len(cs) |-> Document(cs[i], d.source)]
                \o ChunksOf(Tail(docs), size, overlap)

\* TextSplitter.__init__: the only relation checked between the two sizes
SplitterRejects(chunk_size, chunk_overlap) == chunk_overlap > chunk_size

\* split_documents: [kind, value (the chunks), texts (texts handed to the
\* splitter)]
split_documents(docs, chunk_size, chunk_overlap) ==
    IF SplitterRejects(chunk_size, chunk_overlap)
    THEN [kind |-> "ValueError", value |-> <<>>, texts |-> 0]
    ELSE [kind |-> "ok", value |-> ChunksOf(docs, chunk_size, chunk_overlap),
          texts |-> Len(docs)]

(***************************************************************************)
(* embedings.py.  A Python value handed to the provider is a str            *)
(* (Str(t)), a Document, or a value of another type (NotStr).  The backend  *)
(* (GoogleGenerativeAIEmbeddings) answers with one vector per text, or      *)
(* raises when it cannot be reached.                                        *)
(***************************************************************************)
Str(t) == [type |-> "str", s |-> t]
NotStr == [type |-> "int", s |-> <<>>]

Dims == {1, 2}

Count(t, c) == Cardinality({ i \in 1..Len(t) : t[i] = c })

\* the vector the backend model of dimension d gives a text
Embed(t, d) == IF d = 1 THEN <<Count(t, "a")>> ELSE <<Count(t, "a"), Count(t, Blank)>>

\* isinstance(text, str) and text.strip()
ValidText(v) == v.type = "str" /\ Strip(v.s) # <<>>

\* results of the provider: [kind, value, backend_calls]
EmbOk(v) == [kind |-> "ok", value |-> v, backend_calls |-> 1]
EmbRaise(k, n) == [kind |-> k, value |-> <<>>, backend_calls |-> n]

\* generate_embedding(text) on a backend of dimension d that is up or not
generate_embedding(text, d, up) ==
    IF ~ValidText(text) THEN EmbRaise("ValueError", 0)
    ELSE IF up THEN EmbOk(Embed(text.s, d))
    ELSE EmbRaise("Exception", 1)

\* generate_embeddings_batch(texts)
generate_embeddings_batch(texts, d, up) ==
    IF texts = <<>> \/ ~(\A i \in 1..Len(texts) : ValidText(texts[i]))
    THEN EmbRaise("ValueError", 0)
    ELSE IF up THEN EmbOk([i \in 1..Len(texts) |-> Embed(texts[i].s, d)])
    ELSE EmbRaise("Exception", 1)

\* embed_documents(documents): the isinstance check is outside the try, the
\* batch call inside it, so whatever the batch call raises leaves as Exception
embed_documents(docs, d, up) ==
    IF docs = <<>> \/ ~(\A i \in 1..Len(docs) : docs[i].type = "Document")
    THEN EmbRaise("ValueError", 0)
    ELSE LET texts == [i \in 1..Len(docs) |-> Str(docs[i].page_content)]
             r     == generate_embeddings_batch(texts, d, up)
         IN IF r.kind = "ok" THEN r ELSE EmbRaise("Exception", r.backend_calls)

(***************************************************************************)
(* The FAISS vector store of langchain_community as indexing.py uses it.   *)
(* An index object holds the flat vectors of dimension d, the documents of *)
(* its docstore in insertion order, and the embedding object it was given. *)
(* The store speaks to that object through the Embeddings interface:       *)
(* embed_documents(list of str) when it builds, embed_query(str) when it   *)
(* searches.                                                               *)
(***************************************************************************)
NoneValue == [type |-> "None"]

FAISS(vectors, docs, d, embedding) ==
    [type |-> "FAISS", d |-> d, vectors |-> vectors, docs |-> docs,
     embedding |-> embedding]

\* the embedding object an IndexManager owns (embedings.py) and a langchain
\* Embeddings object a caller may have built an index with
EmbeddingsGenerator(d) == [class |-> "EmbeddingsGenerator", dim |-> d]
LangchainEmbeddings(d) == [class |-> "Embeddings", dim |-> d]

\* embedding.embed_documents(texts) as from_texts calls it: texts are str, so
\* an EmbeddingsGenerator runs its own embed_documents on a list of str
EmbeddingEmbedDocuments(embedding, texts, up) ==
    IF embedding.class = "EmbeddingsGenerator"
    THEN embed_documents(texts, embedding.dim, up)
    ELSE IF up THEN EmbOk([i \in 1..Len(texts) |-> Embed(texts[i].s, embedding.dim)])
         ELSE EmbRaise("GoogleGenerativeAIError", 1)

\* FAISS.from_documents(chunks, embedding): the page contents are embedded in
\* one batch and the i-th vector is stored with the i-th document
FAISS_from_documents(chunk_list, embedding, up) ==
    LET texts == [i \in 1..Len(chunk_list) |-> Str(chunk_list[i].page_content)]
        e     == EmbeddingEmbedDocuments(embedding, texts, up)
    IN IF e.kind = "ok"
       THEN [kind |-> "ok", value |-> FAISS(e.value, chunk_list, embedding.dim, embedding),
             backend_calls |-> e.backend_calls]
       ELSE e

\* squared L2 distance, the metric of the flat index
RECURSIVE Dist(_, _)
Dist(u, v) ==
    IF u = <<>> THEN 0
    ELSE (Head(u) - Head(v)) * (Head(u) - Head(v)) + Dist(Tail(u), Tail(v))

\* the position of entry i when the entries are ordered by distance to qv,
\* earlier insertion first among equals
Rank(vectors, qv, i) ==
    1 + Cardinality({ j \in 1..Len(vectors) :
                        \/ Dist(vectors[j], qv) < Dist(vectors[i], qv)
                        \/ Dist(vectors[j], qv) = Dist(vectors[i], qv) /\ j < i })

Min2(a, b) == IF a < b THEN a ELSE b

\* db.similarity_search(query, k): the query is embedded with embed_query of
\* an Embeddings object, any other embedding object is called as a function
\* (an EmbeddingsGenerator has neither embed_query nor __call__); the flat
\* index refuses a query vector of another dimension; the k nearest entries
\* are looked up in the docstore
FAISS_similarity_search(db, query, k, up) ==
    IF db.embedding.class # "Embeddings" THEN Raise("TypeError")
    ELSE IF ~up THEN Raise("GoogleGenerativeAIError")
    ELSE LET qv == Embed(query, db.embedding.dim)
             n  == Min2(k, Len(db.vectors))
             at == [r \in 1..n |-> CHOOSE i \in 1..Len(db.vectors) :
                                      Rank(db.vectors, qv, i) = r]
         IN IF Len(qv) # db.d THEN Raise("AssertionError")
            ELSE IF \E r \in 1..n : at[r] > Len(db.docs) THEN Raise("KeyError")
            ELSE Ok([r \in 1..n |-> db.docs[at[r]]])

\* The artifact of one index name: the directory, index.faiss (dimension,
\* count and the flat array of components) and index.pkl (the docstore)
NoFaissFile == [present |-> FALSE, d |-> 0, ntotal |-> 0, xb |-> <<>>]
NoPklFile == [present |-> FALSE, docs |-> <<>>]
NoArtifact == [dir |-> FALSE, faiss |-> NoFaissFile, pkl |-> NoPklFile]

RECURSIVE Flatten(_)
Flatten(vectors) ==
    IF vectors = <<>> THEN <<>> ELSE Head(vectors) \o Flatten(Tail(vectors))

write_index(db) ==
    [present |-> TRUE, d |-> db.d, ntotal |-> Len(db.vectors), xb |-> Flatten(db.vectors)]

read_index(file) ==
    [i \in 1..file.ntotal |-> SubSeq(file.xb, (i - 1) * file.d + 1, i * file.d)]

pickle_dump(db) == [present |-> TRUE, docs |-> db.docs]

FailPoints == {"none", "after_mkdir", "after_index_faiss"}

\* db.save_local(path): mkdir, write index.faiss, then write index.pkl; fail
\* names the point where an I/O error or an interruption ends it, if any
save_local(artifact, db, fail) ==
    IF fail = "after_mkdir"
    THEN [kind |-> "OSError", artifact |-> [artifact EXCEPT !.dir = TRUE]]
    ELSE IF fail = "after_index_faiss"
    THEN [kind |-> "OSError",
          artifact |-> [artifact EXCEPT !.dir = TRUE, !.faiss = write_index(db)]]
    ELSE [kind |-> "ok",
          artifact |-> [dir |-> TRUE, faiss |-> write_index(db), pkl |-> pickle_dump(db)]]

\* FAISS.load_local(path, embeddings) without allow_dangerous_deserialization:
\* a build of the library that asks for it (guard) refuses to unpickle
load_local(artifact, embeddings, guard) ==
    IF guard THEN Raise("ValueError")
    ELSE IF ~artifact.faiss.present THEN Raise("RuntimeError")
    ELSE IF ~artifact.pkl.present THEN Raise("FileNotFoundError")
    ELSE Ok(FAISS(read_index(artifact.faiss), artifact.pkl.docs,
                  artifact.faiss.d, embeddings))

(***************************************************************************)
(* indexing.py: IndexManager.  A manager is [dim, up, guard]: the dimension *)
(* of its embedding model, whether the backend answers, and whether the    *)
(* installed vector store asks for the unpickling opt-in.  Results are     *)
(* [kind, value, storage, delegated]: storage says the call touched the    *)
(* index directory, delegated that it called the vector store.             *)
(***************************************************************************)
\* the index names under which artifacts are stored
Names == {"documentos_index"}

MgrRet(kind, value, storage, delegated) ==
    [kind |-> kind, value |-> value, storage |-> storage, delegated |-> delegated]

\* os.path.join(self.index_dir, index_name): the empty name is the index
\* directory itself, which __init__ has created
ArtifactAt(dsk, index_name) ==
    IF index_name = "" THEN [NoArtifact EXCEPT !.dir = TRUE] ELSE dsk[index_name]

create_index(m, chunk_list) ==
    IF chunk_list = <<>> THEN MgrRet("ValueError", NoneValue, FALSE, FALSE)
    ELSE LET r == FAISS_from_documents(chunk_list, EmbeddingsGenerator(m.dim), m.up)
         IN IF r.kind = "ok" THEN MgrRet("ok", r.value, FALSE, TRUE)
            ELSE MgrRet("Exception", NoneValue, FALSE, TRUE)

\* save_index: [ret, disk]
save_index(m, dsk, db, index_name, fail) ==
    IF db.type = "None" \/ index_name = ""
    THEN [ret |-> MgrRet("ValueError", NoneValue, FALSE, FALSE), disk |-> dsk]
    ELSE LET r == save_local(dsk[index_name], db, fail)
         IN [ret  |-> MgrRet(IF r.kind = "ok" THEN "ok" ELSE "Exception",
                             NoneValue, TRUE, TRUE),
             disk |-> [dsk EXCEPT ![index_name] = r.artifact]]

load_index(m, dsk, index_name) ==
    IF ~ArtifactAt(dsk, index_name).dir
    THEN MgrRet("FileNotFoundError", NoneValue, TRUE, FALSE)
    ELSE LET r == load_local(ArtifactAt(dsk, index_name),
                             EmbeddingsGenerator(m.dim), m.guard)
         IN IF r.kind = "ok" THEN MgrRet("ok", r.value, TRUE, TRUE)
            ELSE MgrRet("Exception", NoneValue, TRUE, TRUE)

similarity_search(m, db, query, k) ==
    IF db.type = "None" \/ query = <<>>
    THEN MgrRet("ValueError", <<>>, FALSE, FALSE)
    ELSE LET r == FAISS_similarity_search(db, query, k, m.up)
         IN IF r.kind = "ok" THEN MgrRet("ok", r.value, FALSE, TRUE)
            ELSE MgrRet("Exception", <<>>, FALSE, TRUE)

\* a similarity_search that builds the index anew from its documents with the
\* manager's embedding model before it searches
similarity_search_rebuilding(m, dsk, db, query, k) ==
    IF db.type = "None" \/ query = <<>>
    THEN [db |-> db, disk |-> dsk, from_documents_calls |-> 0, embed_documents_calls |-> 0]
    ELSE [db |-> FAISS([i \in 1..Len(db.docs) |-> Embed(db.docs[i].page_content, m.dim)],
                       db.docs, m.dim, db.embedding),
          disk |-> dsk, from_documents_calls |-> 1, embed_documents_calls |-> 1]

\* what a similarity_search call leaves behind and what it asks of the vector
\* store and the provider besides the search itself: the method assigns to
\* nothing, writes no file, and calls neither FAISS.from_documents nor
\* embed_documents; db.similarity_search reads the flat index and the
\* docstore.  [db (the index object after the call), disk,
\* from_documents_calls, embed_documents_calls]
similarity_search_effects(m, dsk, db, query, k) ==
    [db |-> db, disk |-> dsk, from_documents_calls |-> 0, embed_documents_calls |-> 0]

vars == <<fs, call, index_manager, disk, saved, held, env, pc, stages, documents, chunks, out>>

NoCall == [op |-> "none"]

EmptyDisk == [n \in Names |-> NoArtifact]
NothingSaved == [n \in Names |-> [db |-> NoneValue, complete |-> FALSE]]

mainVars == <<env, pc, stages, documents, chunks, out>>

PyNone == [type |-> "None", items |-> <<>>]
PyList(items) == [type |-> "list", items |-> items]

\* main is not running
NoMain ==
    /\ env = [api_key |-> TRUE, dim |-> 1, up |-> TRUE, guard |-> FALSE]
    /\ pc = "idle"
    /\ stages = <<>>
    /\ documents = <<>>
    /\ chunks = PyNone
    /\ out = <<>>

\* no index manager has been constructed and the index directory is empty
NoIndexState ==
    /\ index_manager = NoneValue
    /\ disk = EmptyDisk
    /\ saved = NothingSaved
    /\ held = NoneValue

(***************************************************************************)
(* The loader called on its own                                            *)
(***************************************************************************)
InitLoader ==
    /\ fs \in Directories
    /\ call = NoCall
    /\ NoIndexState
    /\ NoMain

CallLoadDocument ==
    /\ call = NoCall
    /\ \E f \in FileKinds :
          call' = [op |-> "load_document", file |-> f, ret |-> load_document(f)]
    /\ UNCHANGED <<fs, index_manager, disk, saved, held, mainVars>>

CallLoadDocumentsFromDir ==
    /\ call = NoCall
    /\ call' = [op |-> "load_documents_from_dir",
                ret |-> load_documents_from_dir(fs)]
    /\ UNCHANGED <<fs, index_manager, disk, saved, held, mainVars>>

NextLoader == CallLoadDocument \/ CallLoadDocumentsFromDir

SpecLoader == InitLoader /\ [][NextLoader]_vars

(***************************************************************************)
(* The splitter called on its own                                          *)
(***************************************************************************)
SampleDocuments == UNION { { DocsOf(f)[i] : i \in 1..Len(f.pages) } : f \in FileKinds }

DocumentLists == UNION { [1..n -> SampleDocuments] : n \in 0..MaxDocs }

InitSplit ==
    /\ fs = [exists |-> FALSE, listing |-> <<>>]
    /\ call = NoCall
    /\ NoIndexState
    /\ NoMain

CallSplitDocuments ==
    /\ call = NoCall
    /\ \E docs \in DocumentLists, size \in 1..MaxChunkSize, overlap \in 0..(MaxChunkSize + 1) :
          call' = [op |-> "split_documents", documents |-> docs,
                   chunk_size |-> size, chunk_overlap |-> overlap,
                   ret |-> split_documents(docs, size, overlap)]
    /\ UNCHANGED <<fs, index_manager, disk, saved, held, mainVars>>

NextSplit == CallSplitDocuments

SpecSplit == InitSplit /\ [][NextSplit]_vars

(***************************************************************************)
(* The embeddings generator called on its own                              *)
(***************************************************************************)
PyTexts == { Str(<<>>), Str(<<Blank>>), Str(<<"a">>), Str(<<"a", Blank>>), NotStr }

PyDocs == { Document(<<>>, "x"), Document(<<Blank>>, "x"), Document(<<"a", "a">>, "x"),
            Str(<<"a">>) }

Backends == [dim : Dims, up : BOOLEAN]

InitEmb ==
    /\ fs = [exists |-> FALSE, listing |-> <<>>]
    /\ call = NoCall
    /\ NoIndexState
    /\ NoMain

CallGenerateEmbedding ==
    /\ call = NoCall
    /\ \E text \in PyTexts, b \in Backends :
          call' = [op |-> "generate_embedding", arg |-> <<text>>, backend |-> b,
                   ret |-> generate_embedding(text, b.dim, b.up)]
    /\ UNCHANGED <<fs, index_manager, disk, saved, held, mainVars>>

CallGenerateEmbeddingsBatch ==
    /\ call = NoCall
    /\ \E texts \in UNION { [1..n -> PyTexts] : n \in 0..MaxBatch }, b \in Backends :
          call' = [op |-> "generate_embeddings_batch", arg |-> texts, backend |-> b,
                   ret |-> generate_embeddings_batch(texts, b.dim, b.up)]
    /\ UNCHANGED <<fs, index_manager, disk, saved, held, mainVars>>

CallEmbedDocuments ==
    /\ call = NoCall
    /\ \E docs \in UNION { [1..n -> PyDocs] : n \in 0..MaxBatch }, b \in Backends :
          call' = [op |-> "embed_documents", arg |-> docs, backend |-> b,
                   ret |-> embed_documents(docs, b.dim, b.up)]
    /\ UNCHANGED <<fs, index_manager, disk, saved, held, mainVars>>

NextEmb == CallGenerateEmbedding \/ CallGenerateEmbeddingsBatch \/ CallEmbedDocuments

SpecEmb == InitEmb /\ [][NextEmb]_vars

(***************************************************************************)
(* Claims about the loader, the splitter and the embeddings generator      *)
(***************************************************************************)
\* a file the directory scan can turn into documents
Loadable(f) == f.exists /\ ~f.fails /\ f.ext \in {".pdf", ".docx", ".xlsx", ".txt"}

RECURSIVE DocsOfLoadable(_)
DocsOfLoadable(listing) ==
    IF listing = <<>> THEN <<>>
    ELSE (IF Loadable(Head(listing)) THEN DocsOf(Head(listing)) ELSE <<>>)
             \o DocsOfLoadable(Tail(listing))

SkippedFiles(listing) == { i \in 1..Len(listing) : ~Loadable(listing[i]) }

\* C8: load_documents_from_dir on an existing directory never aborts, returns
\* exactly the documents of the files that loaded, and prints one skip
\* diagnostic for every file it skipped, unsupported extension or failed load.
C8_EverySkipHasDiagnostic ==
    (call.op = "load_documents_from_dir" /\ fs.exists) =>
        /\ call.ret.kind = "ok"
        /\ call.ret.value = DocsOfLoadable(fs.listing)
        /\ Len(call.ret.printed) = Cardinality(SkippedFiles(fs.listing))

\* C9: split_documents with chunk_overlap >= chunk_size (equality included)
\* fails with a configuration error before any document is split and before
\* any chunk is produced.
C9_OverlapNotBelowSizeRejected ==
    (call.op = "split_documents" /\ call.chunk_overlap >= call.chunk_size) =>
        /\ call.ret.kind = "ValueError"
        /\ call.ret.texts = 0
        /\ call.ret.value = <<>>

\* an input of an embedding operation that holds an empty, whitespace-only or
\* non-string text
HasInvalidText(c) ==
    \E i \in 1..Len(c.arg) :
        \/ c.arg[i].type = "int"
        \/ c.arg[i].type = "str" /\ Strip(c.arg[i].s) = <<>>
        \/ c.arg[i].type = "Document" /\ Strip(c.arg[i].page_content) = <<>>

EmbeddingOps == {"generate_embedding", "generate_embeddings_batch", "embed_documents"}

\* C7: every embedding operation answers an empty, whitespace-only or
\* non-string text with the input-validation error and no backend call, and
\* a failure of the backend call itself with a different error kind.
C7_ValidationErrorDistinct ==
    call.op \in EmbeddingOps =>
        /\ HasInvalidText(call) =>
               call.ret.kind = "ValueError" /\ call.ret.backend_calls = 0
        /\ call.ret.backend_calls > 0 => call.ret.kind # "ValueError"

(***************************************************************************)
(* The index manager called on its own: any of its four operations, in any *)
(* order, on the indexes a caller can hold                                 *)
(***************************************************************************)
Chunk1 == Document(<<"a">>, "notes.txt")
Chunk2 == Document(<<"a", "a", Blank, "a">>, "notes.txt")
Chunk3 == Document(<<"a", Blank>>, "paper.pdf")

ChunkLists == { <<>>, <<Chunk1>>, <<Chunk2, Chunk1>>, <<Chunk1, Chunk2, Chunk3>> }

\* indexes a caller built with the vector store and a langchain Embeddings
\* object of its own
BuiltBy(cl, d) ==
    FAISS([i \in 1..Len(cl) |-> Embed(cl[i].page_content, d)], cl, d,
          LangchainEmbeddings(d))

CallerIndexes ==
    { BuiltBy(<<Chunk2, Chunk1>>, 1), BuiltBy(<<Chunk2, Chunk1>>, 2),
      BuiltBy(<<Chunk1, Chunk2, Chunk3>>, 1) }

Queries == { <<>>, <<"a">>, <<"a", "a", Blank>> }

Managers == [dim : Dims, up : BOOLEAN, guard : BOOLEAN]

InitIndex ==
    /\ fs = [exists |-> FALSE, listing |-> <<>>]
    /\ call = NoCall
    /\ index_manager \in Managers
    /\ disk = EmptyDisk
    /\ saved = NothingSaved
    /\ held = NoneValue
    /\ NoMain

\* the index arguments a caller can pass: one it built, the one it holds, None
IndexArgs == CallerIndexes \cup {held, NoneValue}

CallCreateIndex ==
    \E chunk_list \in ChunkLists :
        LET r == create_index(index_manager, chunk_list) IN
        /\ call' = [op |-> "create_index", chunks |-> chunk_list, ret |-> r]
        /\ held' = IF r.kind = "ok" THEN r.value ELSE held
        /\ UNCHANGED <<fs, index_manager, disk, saved, mainVars>>

CallSaveIndex ==
    \E db \in IndexArgs, index_name \in Names \cup {""}, fail \in FailPoints :
        LET r == save_index(index_manager, disk, db, index_name, fail) IN
        /\ call' = [op |-> "save_index", db |-> db, index_name |-> index_name,
                    ret |-> r.ret]
        /\ disk' = r.disk
        /\ saved' = IF r.ret.kind = "ValueError" THEN saved
                    ELSE IF r.ret.kind = "ok"
                    THEN [saved EXCEPT ![index_name] = [db |-> db, complete |-> TRUE]]
                    ELSE [saved EXCEPT ![index_name].complete = FALSE]
        /\ UNCHANGED <<fs, index_manager, held, mainVars>>

CallLoadIndex ==
    \E index_name \in Names \cup {""} :
        LET r == load_index(index_manager, disk, index_name) IN
        /\ call' = [op |-> "load_index", index_name |-> index_name,
                    stored |-> ArtifactAt(disk, index_name), ret |-> r]
        /\ held' = IF r.kind = "ok" THEN r.value ELSE held
        /\ UNCHANGED <<fs, index_manager, disk, saved, mainVars>>

CallSimilaritySearch ==
    \E db \in IndexArgs, query \in Queries, k \in 1..MaxK :
        LET r == similarity_search(index_manager, db, query, k)
            e == similarity_search_effects(index_manager, disk, db, query, k)
        IN
        /\ call' = [op |-> "similarity_search", db |-> db, query |-> query, k |-> k,
                    ret |-> r, after |-> e.db,
                    rebuilds |-> e.from_documents_calls,
                    batch_embeds |-> e.embed_documents_calls]
        /\ held' = IF db = held THEN e.db ELSE held
        /\ disk' = e.disk
        /\ UNCHANGED <<fs, index_manager, saved, mainVars>>

NextIndex == CallCreateIndex \/ CallSaveIndex \/ CallLoadIndex \/ CallSimilaritySearch

SpecIndex == InitIndex /\ [][NextIndex]_vars

(***************************************************************************)
(* Claims about the index manager                                          *)
(***************************************************************************)
ArtifactOf(db) == [dir |-> TRUE, faiss |-> write_index(db), pkl |-> pickle_dump(db)]

\* the artifact is exactly what one save_index that ran to its end wrote
CompleteArtifact(n) ==
    saved[n].db.type = "FAISS" /\ disk[n] = ArtifactOf(saved[n].db)

\* C2: save is atomic: in every reachable state, also after a save_index that
\* failed or was interrupted part-way, the artifact under a name is absent or
\* complete, and load_index accepts nothing but a complete artifact.
C2_SaveAtomic ==
    /\ \A n \in Names : disk[n] = NoArtifact \/ CompleteArtifact(n)
    /\ (call.op = "load_index" /\ call.ret.kind = "ok") =>
           /\ call.index_name \in Names
           /\ CompleteArtifact(call.index_name)

\* C3: load_index of an artifact whose stored dimension differs from the
\* provider's fails with a dimension-mismatch error, and no index load_index
\* returns has another dimension than the provider.
C3_DimensionMismatchRejected ==
    call.op = "load_index" =>
        /\ (call.stored.faiss.present /\ call.stored.faiss.d # index_manager.dim) =>
               call.ret.kind = "DimensionMismatchError"
        /\ call.ret.kind = "ok" => call.ret.value.d = index_manager.dim

C5_CreateIndexPairsChunksWithVectors ==
    (call.op = "create_index" /\ call.chunks # <<>> /\ index_manager.up) =>
        /\ call.ret.kind = "ok"
        /\ Len(call.ret.value.docs) = Len(call.chunks)
        /\ Len(call.ret.value.vectors) = Len(call.chunks)
        /\ \A i \in 1..Len(call.chunks) :
               /\ call.ret.value.docs[i] = call.chunks[i]
               /\ call.ret.value.vectors[i]
                      = Embed(call.chunks[i].page_content, index_manager.dim)

\* a manager call whose string argument or collection argument is empty
EmptyArgument(c) ==
    \/ c.op = "create_index" /\ c.chunks = <<>>
    \/ c.op = "save_index" /\ c.index_name = ""
    \/ c.op = "load_index" /\ c.index_name = ""
    \/ c.op = "similarity_search" /\ c.query = <<>>

\* C6: each of the four manager operations answers an empty string or empty
\* collection argument with a validation error, before it touches the index
\* directory and before it calls the vector store or the provider.
C6_EmptyArgumentRejectedFirst ==
    EmptyArgument(call) =>
        /\ call.ret.kind = "ValueError"
        /\ ~call.ret.storage
        /\ ~call.ret.delegated

main_chunk_size == 1000
main_chunk_overlap == 200
index_name_of_main == "documentos_index"

\* a printed line
Line(msg) == [msg |-> msg, file |-> ""]

Stage(stage, input, ok) == [stage |-> stage, input |-> input, ok |-> ok]

\* process_documents without its "if not documents" return
ProcessLoadUnchecked(d) ==
    LET r == load_documents_from_dir(d) IN
    IF r.kind # "ok"
    THEN [pc |-> "crashed", documents |-> <<>>, ok |-> FALSE,
          printed |-> <<Line("1. Loading documents")>>]
    ELSE [pc |-> "split", documents |-> r.value, ok |-> r.value # <<>>,
          printed |-> <<Line("1. Loading documents")>> \o r.printed \o <<Line("Found documents")>>]

\* process_documents up to "Found n documents": [pc, documents, printed, ok]
ProcessLoad(d) ==
    LET r == load_documents_from_dir(d) IN
    IF r.kind # "ok"
    THEN [pc |-> "crashed", documents |-> <<>>, ok |-> FALSE,
          printed |-> <<Line("1. Loading documents")>>]
    ELSE IF r.value = <<>>
    THEN [pc |-> "check", documents |-> r.value, ok |-> FALSE,
          printed |-> <<Line("1. Loading documents")>> \o r.printed \o <<Line("No documents found!")>>]
    ELSE [pc |-> "split", documents |-> r.value, ok |-> TRUE,
          printed |-> <<Line("1. Loading documents")>> \o r.printed \o <<Line("Found documents")>>]

\* process_documents from "2. Splitting" to its return: the count of chunks
\* is printed, then split_docs[0] raises IndexError when there is no chunk;
\* nothing in process_documents or main catches it
ProcessSplit(docs) ==
    LET r == split_documents(docs, main_chunk_size, main_chunk_overlap) IN
    IF r.kind # "ok"
    THEN [pc |-> "crashed", chunks |-> PyNone, ok |-> FALSE,
          printed |-> <<Line("2. Splitting documents into chunks")>>]
    ELSE IF r.value = <<>>
    THEN [pc |-> "crashed", chunks |-> PyNone, ok |-> FALSE,
          printed |-> <<Line("2. Splitting documents into chunks"), Line("Created chunks")>>]
    ELSE [pc |-> "check", chunks |-> PyList(r.value), ok |-> TRUE,
          printed |-> <<Line("2. Splitting documents into chunks"), Line("Created chunks")>>]

\* main without its "if not chunks" return
CheckChunksSkipped(c) == [pc |-> "manager", printed |-> <<>>]

\* main's "if not chunks": [pc, printed]
CheckChunks(c) ==
    IF c.items = <<>>
    THEN [pc |-> "returned", printed |-> <<Line("Error: No document chunks to process")>>]
    ELSE [pc |-> "manager", printed |-> <<>>]

\* IndexManager(): create_embeddings_model raises ValueError without
\* GEMINI_API_KEY: [pc, index_manager]
NewIndexManager(e) ==
    IF ~e.api_key THEN [pc |-> "crashed", index_manager |-> NoneValue]
    ELSE [pc |-> "try",
          index_manager |-> [dim |-> e.dim, up |-> e.up, guard |-> e.guard]]

\* main's try block and what follows it: [pc, stages, db, disk, printed]
TryBlock(m, dsk, c, fail, query, k) ==
    LET built == create_index(m, c) IN
    IF built.kind # "ok"
    THEN [pc |-> "returned", db |-> NoneValue, disk |-> dsk,
          stages |-> <<Stage("build", c, FALSE)>>,
          printed |-> <<Line("3. Creating vector index"), Line("Error")>>]
    ELSE LET db == built.value
             sv == save_index(m, dsk, db, index_name_of_main, fail)
         IN IF sv.ret.kind # "ok"
            THEN [pc |-> "returned", db |-> db, disk |-> sv.disk,
                  stages |-> <<Stage("build", c, TRUE), Stage("save", db, FALSE)>>,
                  printed |-> <<Line("3. Creating vector index"), Line("Error")>>]
            ELSE LET found == similarity_search(m, db, query, k) IN
                 IF found.kind # "ok"
                 THEN [pc |-> "returned", db |-> db, disk |-> sv.disk,
                       stages |-> <<Stage("build", c, TRUE), Stage("save", db, TRUE),
                                    Stage("search", db, FALSE)>>,
                       printed |-> <<Line("3. Creating vector index"),
                                     Line("4. Testing search functionality"), Line("Error")>>]
                 ELSE [pc |-> "done", db |-> db, disk |-> sv.disk,
                       stages |-> <<Stage("build", c, TRUE), Stage("save", db, TRUE),
                                    Stage("search", db, TRUE)>>,
                       printed |-> <<Line("3. Creating vector index"),
                                     Line("4. Testing search functionality"), Line("Top results"),
                                     Line("RAG Pipeline completed successfully!")>>]

MainEnvs == [api_key : BOOLEAN, dim : Dims, up : BOOLEAN, guard : {FALSE}]

Init ==
    /\ fs \in Directories
    /\ env \in MainEnvs
    /\ call = NoCall
    /\ NoIndexState
    /\ pc = "start"
    /\ stages = <<>>
    /\ documents = <<>>
    /\ chunks = PyNone
    /\ out = <<>>

MainLoad ==
    /\ pc = "start"
    /\ LET r == ProcessLoad(fs) IN
       /\ pc' = r.pc
       /\ documents' = r.documents
       /\ stages' = Append(stages, Stage("load", <<>>, r.ok))
       /\ out' = out \o r.printed
    /\ UNCHANGED <<fs, call, index_manager, disk, saved, held, env, chunks>>

MainSplit ==
    /\ pc = "split"
    /\ LET r == ProcessSplit(documents) IN
       /\ pc' = r.pc
       /\ chunks' = r.chunks
       /\ stages' = Append(stages, Stage("split", documents, r.ok))
       /\ out' = out \o r.printed
    /\ UNCHANGED <<fs, call, index_manager, disk, saved, held, env, documents>>

MainCheckChunks ==
    /\ pc = "check"
    /\ LET r == CheckChunks(chunks) IN
       /\ pc' = r.pc
       /\ out' = out \o r.printed
    /\ UNCHANGED <<fs, call, index_manager, disk, saved, held, env, stages,
                   documents, chunks>>

MainNewIndexManager ==
    /\ pc = "manager"
    /\ LET r == NewIndexManager(env) IN
       /\ pc' = r.pc
       /\ index_manager' = r.index_manager
    /\ UNCHANGED <<fs, call, disk, saved, held, env, stages, documents, chunks, out>>

MainTryBlock ==
    /\ pc = "try"
    /\ \E fail \in FailPoints :
          LET r == TryBlock(index_manager, disk, chunks.items, fail, <<"a", "a">>, 4) IN
          /\ pc' = r.pc
          /\ held' = r.db
          /\ disk' = r.disk
          /\ stages' = stages \o r.stages
          /\ out' = out \o r.printed
    /\ UNCHANGED <<fs, call, index_manager, saved, env, documents, chunks>>

Next == MainLoad \/ MainSplit \/ MainCheckChunks \/ MainNewIndexManager \/ MainTryBlock

Spec == Init /\ [][Next]_vars

(***************************************************************************)
(* Claims about the pipeline driver                                        *)
(***************************************************************************)
StageOrder == <<"load", "split", "build", "save", "search">>

Printed(msg) == \E i \in 1..Len(out) : out[i].msg = msg

\* C1: in every run of main the stages happen in the order load, split,
\* build, save, search; none starts before the one before it has finished
\* successfully, none is entered twice, each works on what the stage before
\* it produced (the search on the index that was built and saved), and the
\* completion message is printed only after build, save and search succeeded.
C1_StagesStrictlySequential ==
    /\ Len(stages) <= Len(StageOrder)
    /\ \A i \in 1..Len(stages) : stages[i].stage = StageOrder[i]
    /\ \A i \in 1..(Len(stages) - 1) : stages[i].ok
    /\ \A i \in 1..Len(stages) :
          /\ stages[i].stage = "split" => stages[i].input = documents
          /\ stages[i].stage = "build" => stages[i].input = chunks.items
          /\ stages[i].stage \in {"save", "search"} => stages[i].input = held
    /\ Printed("RAG Pipeline completed successfully!") =>
          /\ Len(stages) = Len(StageOrder)
          /\ \A i \in 1..Len(stages) : stages[i].ok

\* a run that went through load and split and entered the build stage
C1_Witness ==
    /\ pc = "returned"
    /\ Len(stages) = 3
    /\ stages[3].stage = "build"
    /\ stages[3].input # <<>>

\* C10: when the source directory exists and yields zero documents, the run
\* ends at the load stage: process_documents returns no chunks, and main
\* splits nothing, constructs no IndexManager, creates and saves no index,
\* searches nothing and does not print the completion message.
C10_NoDocumentsEndsAtLoad ==
    (pc # "start" /\ fs.exists /\ DocsOfLoadable(fs.listing) = <<>>) =>
        /\ pc \in {"check", "returned"}
        /\ chunks = PyNone
        /\ \A i \in 1..Len(stages) : stages[i].stage = "load"
        /\ index_manager = NoneValue
        /\ held = NoneValue
        /\ disk = EmptyDisk
        /\ ~Printed("RAG Pipeline completed successfully!")

\* a run over a directory that holds files, none of which yields a document,
\* has returned from main
C10_Witness ==
    /\ pc = "returned"
    /\ fs.exists
    /\ fs.listing # <<>>
    /\ documents = <<>>
    /\ Printed("No documents found!")
    /\ Printed("Error: No document chunks to process")

\* the split stage has run on a non-empty document list and gave no chunk
SplitGaveNoChunk ==
    /\ \E i \in 1..Len(stages) : stages[i].stage = "split"
    /\ documents # <<>>
    /\ split_documents(documents, main_chunk_size, main_chunk_overlap).kind = "ok"
    /\ split_documents(documents, main_chunk_size, main_chunk_overlap).value = <<>>

\* C11: when splitting a non-empty document list gives zero chunks, the run
\* ends by the pipeline's own check and not by an uncaught exception, the
\* failure is reported (the only no-chunks report main has is its "No
\* document chunks to process" line), and no IndexManager is constructed and
\* no index is built, saved or searched.
C11_ZeroChunksReportedAsSplitFailure ==
    SplitGaveNoChunk =>
        /\ pc \in {"check", "returned"}
        /\ pc = "returned" => Printed("Error: No document chunks to process")
        /\ \A i \in 1..Len(stages) : stages[i].stage \in {"load", "split"}
        /\ index_manager = NoneValue
        /\ held = NoneValue
        /\ disk = EmptyDisk

====
